---- MODULE Spec2Model ----
(***************************************************************************)
(* Request-routing and execution engine of claude-proxy-bridge.            *)
(*                                                                         *)
(* The model follows src/src/proxy_server.py (run_with_fallback,           *)
(* stream_with_fallback, the endpoints of create_proxy_app),               *)
(* src/src/ws_bridge.py (the endpoints of create_bridge_app),              *)
(* src/src/claude_runner.py (run_claude, stream_claude) and src/start.py   *)
(* (one process serving every app).                                        *)
(*                                                                         *)
(* The validation and routing of a chat request follow                     *)
(* src/src/openai_types.py (to_prompt), src/src/router.py                  *)
(* (classify_scenario, route_request) and src/src/config.py (the registry  *)
(* and the routing settings).                                              *)
(*                                                                         *)
(* One request is one coroutine.  A step of the model runs a coroutine     *)
(* from one suspension point (await / yield) to the next one.              *)
(***************************************************************************)
EXTENDS Integers, Sequences, FiniteSets, TLC

\* ---------------------------------------------------------------- bounds
NumReqs == 2          \* requests in one run
MaxChain == 2         \* longest fallback_chain of a RoutingDecision
MaxBudget == 2        \* largest ROUTING_MAX_FALLBACK_ATTEMPTS tried
MaxFrags == 2         \* text fragments one streamed attempt may yield
MaxConc == 1          \* largest MAX_CONCURRENT tried
MaxMsgs == 2          \* most messages of one chat request
MaxLines == 3         \* most lines of one provider event stream

Reqs == 1..NumReqs

\* ROUTING_MAX_FALLBACK_ATTEMPTS is int(os.getenv(...)): any integer, the
\* negative ones included.
Budgets == (0 - 1)..MaxBudget
Concs == 1..MaxConc

\* ------------------------------------------------------------- registry
\* names of the configured models (opus, sonnet, haiku in the defaults)
ModelNames == {"A", "B", "C"}

\* main_async creates one proxy app per model and one bridge app
BridgeApp == "bridge"
Apps == ModelNames \cup {BridgeApp}

\* the four ways a chat request reaches the orchestrator
Endpoints == {"post", "sse", "ws", "ws_stream"}
IsStream(e) == e \in {"sse", "ws_stream"}

Min(a, b) == IF a < b THEN a ELSE b
Max(a, b) == IF a > b THEN a ELSE b

\* ------------------------------------------------------ python sequences
\* s[:n]
PySlice(s, n) ==
    LET k == IF n >= 0 THEN Min(n, Len(s)) ELSE Max(Len(s) + n, 0)
    IN  SubSeq(s, 1, k)

\* s[k] is defined for -len(s) <= k < len(s)
PyInRange(s, k) == (0 - Len(s)) <= k /\ k < Len(s)
PyIndex(s, k) == IF k >= 0 THEN s[k + 1] ELSE s[Len(s) + k + 1]

SeqsUpTo(S, n) == UNION {[1..k -> S] : k \in 0..n}

\* RoutingDecision: the primary model and the ordered fallback chain
Decisions == [model : ModelNames, fallback_chain : SeqsUpTo(ModelNames, MaxChain)]

\* ---------------------------------------------------------------- state
VARIABLES
    max_attempts,    \* settings.routing_max_fallback_attempts
    max_concurrent,  \* settings.max_concurrent
    sem,             \* app -> value of that app's asyncio.Semaphore
    pc,              \* request -> suspension point of its coroutine
    app,             \* request -> app whose endpoint received it
    endpoint,        \* request -> endpoint kind
    decision,        \* request -> RoutingDecision handed to the orchestrator
    i,               \* request -> loop index of the fallback walk
    started,         \* request -> stream_with_fallback's local `started`
    last_error,      \* request -> the orchestrator's local `last_error`
    proc,            \* request -> child process of the current attempt
    timed_out,       \* request -> a read of the current attempt timed out
    out,             \* request -> fragments yielded by stream_with_fallback
    attempts,        \* request -> models the executor was invoked on, in order
    result,          \* request -> how the orchestrator call ended
    holds,           \* request -> it is inside `async with _semaphore`
    gone,            \* request -> its consumer disconnected / task cancelled
    routing_settings,         \* the routing fields of the settings singleton
    DEFAULT_FALLBACK_CHAINS,  \* router.py's module-level dict of lists
    request,         \* the chat request a handler received last
    routed,          \* what that handler did with it before the orchestrator
    served,          \* some handler has returned already
    adapter_call,    \* the call of run_model in progress or just ended
    http_stream      \* the call of stream_http in progress or just ended

vars == <<max_attempts, max_concurrent, sem, pc, app, endpoint, decision, i,
          started, last_error, proc, timed_out, out, attempts, result, holds,
          gone, routing_settings, DEFAULT_FALLBACK_CHAINS, request, routed,
          served, adapter_call, http_stream>>

routing == <<routing_settings, DEFAULT_FALLBACK_CHAINS, request, routed, served>>

Orchestrator == <<max_attempts, max_concurrent, sem, pc, app, endpoint,
                  decision, i, started, last_error, proc, timed_out, out,
                  attempts, result, holds, gone>>

config == <<max_attempts, max_concurrent, app, endpoint, decision, routing,
            adapter_call, http_stream>>

NoError == [model |-> "-", why |-> "-"]
NoResult == [kind |-> "none", model |-> "-", error |-> NoError]

\* chain = [decision.model] + decision.fallback_chain[:max_attempts]
Chain(r) == <<decision[r].model>> \o PySlice(decision[r].fallback_chain, max_attempts)

\* the executor is always handed the primary model
McAlwaysPrimary(r) == Chain(r)[1]

\* mc of the current loop iteration
Mc(r) == Chain(r)[i[r] + 1]

\* chain[min(max_attempts, len(chain) - 1)].name
NamedOnExhaustion(ch) ==
    LET k == Min(max_attempts, Len(ch) - 1)
    IN  IF PyInRange(ch, k) THEN PyIndex(ch, k) ELSE "IndexError"

\* the walk stopping once the attempts made equal the budget
WalkEndsAtBudget(r) == i[r] + 1 >= max_attempts \/ i[r] + 1 >= Len(Chain(r))

\* `if i >= max_attempts: break`, or the for loop has no further entry
WalkEnds(r) == i[r] >= max_attempts \/ i[r] + 1 >= Len(Chain(r))

ProcExited(r) == proc[r] \in {"exit0", "exitN"}

\* ======================================================================
\* Request validation and routing: openai_types.py, router.py, config.py
\* ======================================================================
Scenarios == {"complex", "code", "long", "moderate", "simple"}
Roles == {"system", "user", "assistant"}
None == "None"

\* ModelConfig.model_id of the three models of _build_defaults
model_id ==
    [m \in ModelNames |->
        CASE m = "A" -> "claude-opus-4-6"
          [] m = "B" -> "claude-sonnet-4-6"
          [] OTHER   -> "claude-haiku-4-5-20251001"]

\* MODEL_MAP of _build_defaults: model_id and name of every model, and the
\* alias of haiku
MODEL_MAP ==
    [k \in {"claude-opus-4-6", "opus", "claude-sonnet-4-6", "sonnet",
            "claude-haiku-4-5-20251001", "haiku", "claude-haiku-4-5"} |->
        CASE k \in {"claude-opus-4-6", "opus"}     -> "A"
          [] k \in {"claude-sonnet-4-6", "sonnet"} -> "B"
          [] OTHER                                 -> "C"]

\* MODEL_MAP.get(k, SONNET)
MapGetOrSonnet(k) == IF k \in DOMAIN MODEL_MAP THEN MODEL_MAP[k] ELSE "B"

\* MODEL_MAP.get(k)
MapGet(k) == IF k \in DOMAIN MODEL_MAP THEN MODEL_MAP[k] ELSE None

\* values of the request's model field, and str.lower().strip() on them
ModelFields == {"auto", "Smart", "", " Haiku ", "claude-sonnet-4-6", "gpt-4"}
LowerStrip(s) ==
    CASE s = "Smart"   -> "smart"
      [] s = " Haiku " -> "haiku"
      [] OTHER         -> s
\* str.lower() alone keeps the blanks
Lower(s) ==
    CASE s = "Smart"   -> "smart"
      [] s = " Haiku " -> " haiku "
      [] OTHER         -> s

SmartNames == {"auto", "smart", "router"}

\* A message content is a text, known by what the code measures on it: its
\* length in characters and its counts of "```" and of "def "/"function ".
Text(n, t, d) == [len |-> n, ticks |-> t, defs |-> d]
Empty == Text(0, 0, 0)
ChatMessage(role, content) == [role |-> role, content |-> content]

MsgKinds ==
    { ChatMessage("user", Empty),
      ChatMessage("user", Text(2, 0, 0)),
      ChatMessage("user", Text(1000, 2, 0)),
      ChatMessage("system", Text(2400, 0, 0)),
      ChatMessage("assistant", Text(9000, 0, 1)) }

\* sum(s)
RECURSIVE SumSeq(_)
SumSeq(s) == IF s = <<>> THEN 0 ELSE Head(s) + SumSeq(Tail(s))

\* len(sep.join(parts)) for parts given by their lengths
JoinLen(lens, sep) ==
    IF lens = <<>> THEN 0
    ELSE SumSeq(lens) + sep * (Len(lens) - 1)

\* ChatCompletionRequest.to_prompt, the texts given by their lengths:
\* "Human: " has 7 characters, "Assistant: " 11, "\n\n" 2
to_prompt(messages) ==
    LET system_parts == SelectSeq(messages, LAMBDA m : m.role = "system")
        conversation == SelectSeq(messages, LAMBDA m : m.role # "system")
        conversation_parts ==
            [j \in 1..Len(conversation) |->
                (IF conversation[j].role = "user" THEN 7 ELSE 11)
                    + conversation[j].content.len]
        nonempty == SelectSeq(messages, LAMBDA m : m.content.len > 0)
    IN  [system_prompt |->
            IF system_parts # <<>>
            THEN JoinLen([j \in 1..Len(system_parts) |->
                             system_parts[j].content.len], 2)
            ELSE None,
         prompt |->
            IF conversation_parts # <<>>
            THEN JoinLen(conversation_parts, 2)
            ELSE JoinLen([j \in 1..Len(nonempty) |-> nonempty[j].content.len], 2)]

\* any(m.content for m in request.messages)
AnyContent(messages) == \E j \in 1..Len(messages) : messages[j].content.len > 0

\* ---------------------------------------------------------- classifier
\* estimate_tokens: int(len / 2.5) is (2 * len) div 5
estimate_tokens(text) ==
    IF text.len = 0 THEN 0
    ELSE IF text.ticks + text.defs >= 2 THEN Max(1, (2 * text.len) \div 5)
    ELSE Max(1, text.len \div 4)

estimate_request_tokens(messages) ==
    SumSeq([j \in 1..Len(messages) |-> estimate_tokens(messages[j].content)])

\* len(" ".join(m.content for m in messages if m.content))
AllContentLen(messages) ==
    LET nonempty == SelectSeq(messages, LAMBDA m : m.content.len > 0)
    IN  JoinLen([j \in 1..Len(nonempty) |-> nonempty[j].content.len], 1)

\* all_content.count("```")
AllContentTicks(messages) ==
    SumSeq([j \in 1..Len(messages) |-> messages[j].content.ticks])

\* the last user message with content, "" when there is none
RECURSIVE LastUserMsg(_)
LastUserMsg(messages) ==
    IF messages = <<>> THEN Empty
    ELSE LET m == messages[Len(messages)]
         IN  IF m.role = "user" /\ m.content.len > 0 THEN m.content
             ELSE LastUserMsg(SubSeq(messages, 1, Len(messages) - 1))

\* the four scores; hits are the results of _count_pattern_matches
Scores(messages, hits) ==
    LET token_count == estimate_request_tokens(messages)
        message_count == Len(messages)
        has_system_prompt == \E j \in 1..Len(messages) : messages[j].role = "system"
    IN  [complex |-> hits.complex
                     + (IF message_count > 10 THEN 2 ELSE 0)
                     + (IF has_system_prompt /\ AllContentLen(messages) > 2000
                        THEN 1 ELSE 0),
         code |-> hits.code + (IF AllContentTicks(messages) >= 2 THEN 2 ELSE 0),
         simple |-> hits.simple
                     + (IF token_count < 50 /\ message_count <= 2 THEN 2 ELSE 0)
                     + (IF ~has_system_prompt /\ token_count < 100 THEN 1 ELSE 0),
         moderate |-> hits.moderate
                     + (IF 100 <= token_count /\ token_count <= 2000
                           /\ message_count <= 5 THEN 1 ELSE 0)]

\* the two rules for a score of 2 are tried in the other order
DecideComplexFirst(s, token_count) ==
    IF s.complex >= 3 THEN "complex"
    ELSE IF s.code >= 3 THEN "code"
    ELSE IF s.simple >= 3 /\ s.complex < 2 /\ s.code < 2 /\ s.moderate < 2
         THEN "simple"
    ELSE IF s.complex >= 2 THEN "complex"
    ELSE IF s.code >= 2 THEN "code"
    ELSE "moderate"

\* the decision of classify_scenario once the scores are known
Decide(s, token_count) ==
    IF s.complex >= 3 THEN "complex"
    ELSE IF s.code >= 3 THEN "code"
    ELSE IF s.simple >= 3 /\ s.complex < 2 /\ s.code < 2 /\ s.moderate < 2
         THEN "simple"
    ELSE IF s.code >= 2 THEN "code"
    ELSE IF s.complex >= 2 THEN "complex"
    ELSE IF s.moderate >= 2 \/ token_count > 200 THEN "moderate"
    ELSE "moderate"

\* the long-context test comes after the scoring
ClassifyScoresFirst(messages, hits, long_threshold) ==
    LET token_count == estimate_request_tokens(messages)
        s == Scores(messages, hits)
    IN  IF s.complex >= 3 \/ s.code >= 2 THEN Decide(s, token_count)
        ELSE IF token_count > long_threshold THEN "long"
        ELSE Decide(s, token_count)

classify_scenario(messages, hits, long_threshold) ==
    LET token_count == estimate_request_tokens(messages)
    IN  IF token_count > long_threshold THEN "long"
        ELSE Decide(Scores(messages, hits), token_count)

\* -------------------------------------------------------------- router
\* DEFAULT_SCENARIO_MODELS
DEFAULT_SCENARIO_MODELS ==
    [s \in Scenarios |->
        CASE s \in {"complex", "long"}  -> "A"
          [] s \in {"code", "moderate"} -> "B"
          [] OTHER                      -> "C"]

\* the value DEFAULT_FALLBACK_CHAINS is created with
InitialFallbackChains ==
    [s \in Scenarios |->
        CASE s = "complex"  -> <<"A", "B", "C">>
          [] s = "code"     -> <<"B", "A", "C">>
          [] s = "long"     -> <<"A", "B">>
          [] s = "moderate" -> <<"B", "C", "A">>
          [] OTHER          -> <<"C", "B">>]

\* the models the identifiers of an override list resolve to, in order;
\* the unknown ones are skipped
RECURSIVE Resolved(_)
Resolved(ids) ==
    IF ids = <<>> THEN <<>>
    ELSE LET mc == MapGet(Head(ids))
         IN  (IF mc # None THEN <<mc>> ELSE <<>>) \o Resolved(Tail(ids))

\* the override is not consulted
DefaultChainOnly(scenario, st, tables) == tables[scenario]

\* get_fallback_chain; an absent override is the empty list
get_fallback_chain(scenario, st, tables) ==
    LET override == st.fallback_overrides[scenario]
        chain == Resolved(override)
    IN  IF override # <<>> /\ chain # <<>> THEN chain ELSE tables[scenario]

\* get_scenario_model; an absent override is the empty string
get_scenario_model(scenario, st) ==
    LET override == st.scenario_overrides[scenario]
        mc == MapGet(override)
    IN  IF override # "" /\ mc # None THEN mc
        ELSE DEFAULT_SCENARIO_MODELS[scenario]

\* the chain is returned as it is
KeepAll(chain, m) == chain

\* [x for x in chain if x.model_id != m.model_id]
Without(chain, m) == SelectSeq(chain, LAMBDA x : model_id[x] # model_id[m])

\* the model field is never taken for a request of one model
NeverExplicit(requested_model, explicit) == FALSE

\* `if explicit and requested_model not in ("auto", "smart", "router")`
IsExplicit(requested_model, explicit) ==
    explicit # None /\ requested_model \notin SmartNames

\* route_request(request)
route_request(rq, st, tables) ==
    LET scenario == classify_scenario(rq.messages, rq.hits, st.long_threshold)
        requested_model == LowerStrip(rq.model)
        explicit == MapGet(requested_model)
    IN  IF IsExplicit(requested_model, explicit)
        THEN LET fallback == get_fallback_chain(scenario, st, tables)
             IN  [scenario |-> scenario,
                  model |-> explicit,
                  fallback_chain |-> Without(fallback, explicit)]
        ELSE LET model == get_scenario_model(scenario, st)
                 fallback == get_fallback_chain(scenario, st, tables)
             IN  [scenario |-> scenario,
                  model |-> model,
                  fallback_chain |-> Without(fallback, model)]

\* the primary is removed from the shared default list itself
TablesFilteredInPlace(tables, st, d) ==
    IF Resolved(st.fallback_overrides[d.scenario]) = <<>>
    THEN [tables EXCEPT ![d.scenario] = d.fallback_chain]
    ELSE tables

\* DEFAULT_FALLBACK_CHAINS after route_request returned d: get_fallback_chain
\* hands out a copy, list(...), and the comprehension builds a new list
TablesAfter(tables, st, d) == tables

\* ------------------------------------------------------ pattern lists
\* A text given word by word: its words are its runs of word characters, in
\* order, and a "```" fence is a word of its own; whatever separates two
\* words counts as one character.  A pattern is a set of alternatives; an
\* alternative is a phrase, or a phrase, a gap of at least `gap` words and a
\* second phrase (`.*` is a gap of 0, ` .+ ` a gap of 1).
NoTail == 0 - 1
\* the word a "```" fence is written as
Fence == "<fence>"
Phrase(p) == [head |-> p, gap |-> NoTail, tail |-> <<>>]
Gapped(h, n, t) == [head |-> h, gap |-> n, tail |-> t]
AnyWord(S) == {Phrase(<<w>>) : w \in S}
Search(alts) == [kind |-> "search", alts |-> alts, rest |-> 0]

COMPLEX_PATTERNS ==
    << Search(AnyWord({"explain", "analyze", "architect", "design", "compare",
                       "evaluate", "reason", "tradeoff"})
              \cup {Phrase(<<"trade", "off">>)}),
       Search(AnyWord({"thorough", "comprehensive"})
              \cup {Phrase(<<"step", "by", "step">>), Phrase(<<"in", "depth">>),
                    Phrase(<<"detailed", "analysis">>)}),
       Search({Phrase(<<"why", "does">>),
               Gapped(<<"how", "does">>, 1, <<"work">>),
               Phrase(<<"what", "are", "the", "implications">>)}),
       Search(AnyWord({"optimize", "refactor", "debug"})
              \cup {Gapped(<<"review">>, 1, <<"code">>),
                    Phrase(<<"root", "cause">>)}),
       Search({Gapped(<<"implement">>, 1, <<"system">>),
               Gapped(<<"build">>, 1, <<"from", "scratch">>),
               Gapped(<<"create">>, 1, <<"architecture">>)}),
       Search(AnyWord({"proof", "theorem", "mathematical"})
              \cup {Phrase(<<"algorithm", "complexity">>)}) >>

\* `c\+\+` needs a word character right after the second "+" and matches no
\* text made of separate words
CODE_PATTERNS ==
    << Search({Gapped(<<a>>, 0, <<b>>) :
                  a \in {"write", "generate", "create", "implement", "code",
                         "function", "class", "module"},
                  b \in {"code", "script", "program", "function", "api",
                         "endpoint"}}),
       Search(AnyWord({Fence})),
       Search(AnyWord({"python", "javascript", "typescript", "rust", "go",
                       "java", "sql", "html", "css"})),
       Search({Gapped(<<"fix">>, 1, <<"bug">>), Gapped(<<"add">>, 1, <<"feature">>),
               Gapped(<<"write">>, 1, <<"test">>),
               Gapped(<<"create">>, 1, <<"file">>)}),
       Search(AnyWord({"import", "export", "require"})
              \cup {Gapped(<<"from">>, 1, <<"import">>)}) >>

\* the anchored patterns: the whole text is one of the phrases; the text
\* starts with one and at most `rest` characters follow; the text has at
\* most `rest` characters; the text starts with one of the phrases
SIMPLE_PATTERNS ==
    << [kind |-> "whole", rest |-> 0,
        alts |-> AnyWord({"hi", "hello", "hey", "thanks", "ok", "yes", "no",
                          "sure"}) \cup {Phrase(<<"thank", "you">>)}],
       [kind |-> "starts", rest |-> 50,
        alts |-> AnyWord({"define", "translate"})
                 \cup {Phrase(<<"what", "is">>), Phrase(<<"what", "s">>),
                       Phrase(<<"who", "is">>)}],
       [kind |-> "short", rest |-> 40, alts |-> {}],
       [kind |-> "prefix", rest |-> 0,
        alts |-> AnyWord({"summarize", "tldr"}) \cup {Phrase(<<"tl", "dr">>)}] >>

MODERATE_PATTERNS ==
    << Search(AnyWord({"difference", "differences", "compare", "overview"})
              \cup {Phrase(<<"explain", "briefly">>), Phrase(<<"how", "to">>)}),
       Search(AnyWord({"example", "describe"})
              \cup {Phrase(<<"show", "me">>), Phrase(<<"what", "are", "the">>)}),
       Search(AnyWord({"recommend", "suggest"})
              \cup {Phrase(<<"best", "practice">>),
                    Gapped(<<"which">>, 1, <<"should">>)}) >>

REASONING_PATTERNS ==
    << Search(AnyWord({"think", "reason", "consider"})
              \cup {Phrase(<<"let", "s", "think">>),
                    Phrase(<<"chain", "of", "thought">>)}),
       Search(AnyWord({"advantages", "disadvantages", "tradeoffs"})
              \cup {Phrase(<<"pros", "and", "cons">>), Phrase(<<"trade", "offs">>)}),
       Search(AnyWord({"plan", "strategy", "approach", "methodology"})),
       Search(AnyWord({"philosophical", "ethical", "moral", "existential"})) >>

\* len(text) of a text given by its words
CharLen(words) == JoinLen([j \in 1..Len(words) |-> Len(words[j])], 1)

\* the phrase stands in the text from word j on
PhraseAt(words, ph, j) ==
    /\ j >= 1
    /\ j + Len(ph) - 1 <= Len(words)
    /\ \A k \in 1..Len(ph) : words[j + k - 1] = ph[k]

MatchAlt(words, a) ==
    \E j \in 1..Len(words) :
        /\ PhraseAt(words, a.head, j)
        /\ \/ a.gap = NoTail
           \/ \E k \in (j + Len(a.head) + a.gap)..Len(words) :
                  PhraseAt(words, a.tail, k)

\* re.search(p, text) is a match
search(p, words) ==
    CASE p.kind = "search" -> \E a \in p.alts : MatchAlt(words, a)
      [] p.kind = "whole"  -> \E a \in p.alts : words = a.head
      [] p.kind = "starts" -> \E a \in p.alts :
                                  /\ PhraseAt(words, a.head, 1)
                                  /\ CharLen(words) - CharLen(a.head) <= p.rest
      [] p.kind = "short"  -> CharLen(words) <= p.rest
      [] OTHER             -> \E a \in p.alts : PhraseAt(words, a.head, 1)

\* str.lower() on the words of the example
LowerWord(w) ==
    CASE w = "Write"  -> "write"
      [] w = "Python" -> "python"
      [] OTHER        -> w

\* the patterns are matched against the text as written
CountCaseSensitive(words, patterns) ==
    Cardinality({j \in 1..Len(patterns) : search(patterns[j], words)})

\* _count_pattern_matches: how many of the patterns match the lowered text
count_pattern_matches(words, patterns) ==
    LET text_lower == [j \in 1..Len(words) |-> LowerWord(words[j])]
    IN  Cardinality({j \in 1..Len(patterns) : search(patterns[j], text_lower)})

\* the four pattern counts of classify_scenario for a request whose
\* all_content and last_user_msg are given by their words
PatternHits(all_content, last_user_msg) ==
    [complex  |-> count_pattern_matches(all_content, COMPLEX_PATTERNS)
                  + count_pattern_matches(all_content, REASONING_PATTERNS),
     code     |-> count_pattern_matches(all_content, CODE_PATTERNS),
     simple   |-> count_pattern_matches(last_user_msg, SIMPLE_PATTERNS),
     moderate |-> count_pattern_matches(all_content, MODERATE_PATTERNS)]

\* what the code measures on a text given by its words: "def " and
\* "function " are counted where the word is followed by another
TextOf(words) ==
    Text(CharLen(words),
         Cardinality({j \in 1..Len(words) : words[j] = Fence}),
         Cardinality({j \in 1..Len(words) - 1 : words[j] \in {"def", "function"}}))

\* "Write a Python function to reverse a linked list and explain the
\* algorithm's time complexity"
ExampleWords ==
    << "Write", "a", "Python", "function", "to", "reverse", "a", "linked",
       "list", "and", "explain", "the", "algorithm", "s", "time", "complexity" >>

ExampleMessages == <<ChatMessage("user", TextOf(ExampleWords))>>

ExampleRequest ==
    [model |-> "auto", messages |-> ExampleMessages,
     hits |-> PatternHits(ExampleWords, ExampleWords)]

\* ------------------------------------------------- requests and settings
\* numbers of patterns of each family that match the request's text
Hits(c, k, s, m) == [complex |-> c, code |-> k, simple |-> s, moderate |-> m]
HitVectors ==
    { Hits(0, 0, 0, 0), Hits(0, 0, 1, 0), Hits(2, 0, 1, 0), Hits(3, 0, 1, 0),
      Hits(0, 1, 1, 0), Hits(0, 1, 0, 2), Hits(0, 0, 1, 2), Hits(2, 1, 1, 2),
      Hits(3, 1, 0, 2) }

\* what the texts allow: no text matches nothing; "```" is one of the code
\* patterns; the empty last user message matches ^.{0,40}$ and nothing else
ValidHits(messages, h) ==
    /\ AllContentLen(messages) = 0 => h.complex = 0 /\ h.code = 0 /\ h.moderate = 0
    /\ AllContentTicks(messages) > 0 => h.code >= 1
    /\ LastUserMsg(messages) = Empty => h.simple = 1

ChatRequests ==
    {rq \in [model : ModelFields, messages : SeqsUpTo(MsgKinds, MaxMsgs),
             hits : HitVectors] : ValidHits(rq.messages, rq.hits)}
    \cup {ExampleRequest}

NoRequest == [via |-> "-", model |-> "-", messages |-> <<>>,
              hits |-> Hits(0, 0, 0, 0)]

NoOverrides == [s \in Scenarios |-> <<>>]
NoScenarioOverrides == [s \in Scenarios |-> ""]
\* routing.scenario_models of bridge.yaml; without the file, the table of
\* _build_defaults
DefaultScenarioModels ==
    [s \in Scenarios |->
        CASE s \in {"complex", "long"}  -> "opus"
          [] s \in {"code", "moderate"} -> "sonnet"
          [] OTHER                      -> "haiku"]

DefaultSettings ==
    [smart_routing_enabled |-> TRUE, long_threshold |-> 50000,
     fallback_overrides |-> NoOverrides,
     scenario_overrides |-> NoScenarioOverrides,
     yaml_scenario_models |-> DefaultScenarioModels]

\* Settings.routing_scenario_models: the YAML table with the ROUTING_MODEL_*
\* variables merged over it
routing_scenario_models(st) ==
    [s \in Scenarios |->
        IF st.scenario_overrides[s] # "" THEN st.scenario_overrides[s]
        ELSE st.yaml_scenario_models[s]]

\* ROUTING_FALLBACK_<SCENARIO>: lists of identifiers, the same for every
\* scenario: a name and the model_id of one model, an unknown identifier,
\* a mix of an alias, an unknown identifier and names
FallbackOverrides ==
    {[s \in Scenarios |-> ids] :
        ids \in {<<>>, <<"sonnet", "claude-sonnet-4-6">>, <<"gpt-4">>,
                 <<"claude-haiku-4-5", "gpt-4", "opus", "haiku">>}}

\* ROUTING_MODEL_<SCENARIO>
ScenarioOverrides ==
    {[s \in Scenarios |-> k] : k \in {"", "haiku", "gpt-4"}}

\* ROUTING_LONG_CONTEXT_THRESHOLD
Thresholds == {500, 50000}

RoutingSettings ==
    {[DefaultSettings EXCEPT !.long_threshold = t, !.fallback_overrides = f] :
        t \in Thresholds, f \in FallbackOverrides}
    \cup {[DefaultSettings EXCEPT !.scenario_overrides = s, !.fallback_overrides = f] :
        s \in ScenarioOverrides,
        f \in {g \in FallbackOverrides : Len(g["simple"]) \in {0, 4}}}
    \cup {[DefaultSettings EXCEPT !.smart_routing_enabled = FALSE]}
    \cup {[DefaultSettings EXCEPT !.yaml_scenario_models = [s \in Scenarios |-> "haiku"]]}

\* --------------------------------------------------- the chat handlers
NotRouted == [status |-> "none", model |-> "-", scenario |-> "-",
              primary |-> "-", fallback_chain |-> <<>>]
Rejected == [NotRouted EXCEPT !.status = "rejected"]

\* the handler went on to route_request with model field m, which returned d
Routed(m, d) == [status |-> "routed", model |-> m, scenario |-> d.scenario,
                 primary |-> d.model, fallback_chain |-> d.fallback_chain]


\* ======================================================================
\* The adapters behind run_model: runners.py, claude_runner.py, http_runner.py
\* ======================================================================
\* ModelConfig.provider.type: a registry whose model B is served by an HTTP
\* provider, the other two by the claude CLI
provider_type == [m \in ModelNames |-> IF m = "B" THEN "http" ELSE "claude_cli"]

\* run_model / stream_model: the adapter of a provider type
AdapterFor(type) == IF type = "claude_cli" THEN "subprocess" ELSE "http"

\* ---------------------------------------------------------- stream_http
\* A line of the provider's event stream, by what stream_http tests on it:
\*   blank    line.strip() is empty
\*   framed   it starts with "data: "
\*   payload  what follows the prefix: "[DONE]", text that is no JSON
\*            ("invalid"), a JSON value that is no object ("scalar"), or an
\*            object
\*   choices  of an object: "absent", "empty", or a first choice whose delta
\*            is null ("delta_null") or an object ("delta")
\*   content  delta.get("content"): None, "" or a text
SseLine(blank, framed, payload, choices, content) ==
    [blank |-> blank, framed |-> framed, payload |-> payload,
     choices |-> choices, content |-> content]
DataLine(payload, choices, content) == SseLine(FALSE, TRUE, payload, choices, content)
TextLine(t) == DataLine("object", "delta", t)
DoneLine == DataLine("[DONE]", "-", None)

SseLines ==
    { SseLine(TRUE, FALSE, "-", "-", None),          \* a blank line
      SseLine(FALSE, FALSE, "object", "delta", "x"), \* "event: ..." or "data:{...}"
      DoneLine,
      DataLine("invalid", "-", None),
      DataLine("scalar", "-", None),
      DataLine("object", "absent", None),
      DataLine("object", "delta_null", None),
      DataLine("object", "delta", None),             \* a role delta
      DataLine("object", "delta", ""),
      TextLine("a"), TextLine("b") }

\* one pass of the body of `async for line in resp.aiter_lines()`:
\* "continue", "break", "yield" (of line.content), or the exception raised
stream_http_line(line) ==
    IF line.blank THEN "continue"
    ELSE IF ~line.framed THEN "continue"
    ELSE IF line.payload = "[DONE]" THEN "break"
    ELSE IF line.payload = "invalid" THEN "continue"
    ELSE IF line.payload = "scalar" THEN "AttributeError"
    ELSE IF line.choices \in {"absent", "empty"} THEN "continue"
    ELSE IF line.choices = "delta_null" THEN "AttributeError"
    ELSE IF line.content \notin {None, ""} THEN "yield"
    ELSE "continue"

NoStream == [model |-> "-", phase |-> "idle", code |-> 0, lines |-> <<>>,
             at |-> 0, yielded |-> <<>>, raised |-> None]

NoCall == [model |-> "-", adapter |-> "-", phase |-> "idle", how |-> "-",
           code |-> 0, body |-> "-", raised |-> "-"]

\* what the claude CLI child of run_claude can do: the spawn fails, the
\* child outlives request_timeout, or it exits with a code and a stdout
ExitStatuses == {0, 1, 2, 127}
CliBehaviours ==
    [how : {"NotImplementedError", "FileNotFoundError", "timeout"},
     code : {0}, body : {"-"}]
    \cup [how : {"exit"}, code : ExitStatuses, body : {"text", "empty"}]

\* what the provider of run_http can do: no answer in time, no connection,
\* or a response with a status and a body
HttpStatuses == {200, 204, 301, 400, 401, 403, 404, 429, 500, 502, 503}
Bodies == {"text", "empty_text", "null_text", "no_choices", "not_object",
           "malformed", "empty"}
HttpBehaviours ==
    [how : {"timeout", "connect_error"}, code : {0}, body : {"-"}]
    \cup [how : {"response"}, code : HttpStatuses, body : Bodies]

\* run_claude on a child behaving as b: the exception it raises, None when
\* it returns the text
run_claude(b) ==
    CASE b.how \in {"NotImplementedError", "FileNotFoundError"} -> b.how
      [] b.how = "timeout" -> "RuntimeError"
      [] b.code # 0 -> "RuntimeError"
      [] b.body = "empty" -> "RuntimeError"
      [] OTHER -> "None"

\* run_http on a provider behaving as b: client.post raises httpx's own
\* exceptions; a status other than 200 is a RuntimeError; resp.json() raises
\* JSONDecodeError on a body that is no JSON; data.get raises AttributeError
\* on a JSON value that is no object
run_http(b) ==
    CASE b.how = "timeout" -> "httpx.TimeoutException"
      [] b.how = "connect_error" -> "httpx.ConnectError"
      [] b.code # 200 -> "RuntimeError"
      [] b.body \in {"malformed", "empty"} -> "JSONDecodeError"
      [] b.body = "not_object" -> "AttributeError"
      [] b.body \in {"no_choices", "empty_text", "null_text"} -> "RuntimeError"
      [] OTHER -> "None"

\* the classes `except RuntimeError` catches
IsRuntimeError(exc) == exc \in {"RuntimeError", "NotImplementedError"}

\* ------------------------------------------------------- initial states
InitOrchestrator(present, decs, budgets, concs, apps, eps) ==
    /\ max_attempts \in budgets
    /\ max_concurrent \in concs
    /\ sem = [a \in Apps |-> max_concurrent]
    /\ pc = [r \in Reqs |-> IF r \in present THEN "idle" ELSE "absent"]
    /\ \E f \in [present -> apps] :
          app = [r \in Reqs |-> IF r \in present THEN f[r] ELSE BridgeApp]
    /\ \E f \in [present -> Endpoints] :
          /\ \A r \in present : f[r] \in eps[r]
          /\ endpoint = [r \in Reqs |-> IF r \in present THEN f[r] ELSE "post"]
    /\ \E f \in [present -> decs] :
          decision = [r \in Reqs |-> IF r \in present THEN f[r]
                                     ELSE [model |-> "A", fallback_chain |-> <<>>]]
    /\ i = [r \in Reqs |-> 0]
    /\ started = [r \in Reqs |-> FALSE]
    /\ last_error = [r \in Reqs |-> NoError]
    /\ proc = [r \in Reqs |-> "none"]
    /\ timed_out = [r \in Reqs |-> FALSE]
    /\ out = [r \in Reqs |-> <<>>]
    /\ attempts = [r \in Reqs |-> <<>>]
    /\ result = [r \in Reqs |-> NoResult]
    /\ holds = [r \in Reqs |-> FALSE]
    /\ gone = [r \in Reqs |-> FALSE]

\* no chat request was handled yet
InitRouting(sts) ==
    /\ routing_settings \in sts
    /\ DEFAULT_FALLBACK_CHAINS = InitialFallbackChains
    /\ request = NoRequest
    /\ routed = NotRouted
    /\ served = FALSE
    /\ adapter_call = NoCall
    /\ http_stream = NoStream

InitWith(present, decs, budgets, concs, apps, eps) ==
    /\ InitOrchestrator(present, decs, budgets, concs, apps, eps)
    /\ InitRouting({DefaultSettings})

\* one request on any endpoint, every decision and every budget
Init == InitWith({1}, Decisions, Budgets, {1}, {"A", BridgeApp},
                 [r \in Reqs |-> Endpoints])

\* the gate under contention: every request is present, on any app; the
\* first one on any endpoint, the others non-streaming; no fallback
GateDecisions == {[model |-> "A", fallback_chain |-> <<>>]}
InitGate == InitWith(Reqs, GateDecisions, {0}, Concs, {"A", "B", BridgeApp},
                     [r \in Reqs |-> IF r = 1 THEN Endpoints ELSE {"post"}])

\* --------------------------------------------------- the admission gate
\* the exit path forgets Semaphore.release()
ReleaseLost(r) ==
    /\ holds' = [holds EXCEPT ![r] = FALSE]
    /\ sem' = sem

\* `async with _semaphore` is left: Semaphore.release()
Release(r) ==
    /\ holds' = [holds EXCEPT ![r] = FALSE]
    /\ sem' = [sem EXCEPT ![app[r]] = @ + 1]

KeepGate == UNCHANGED <<holds, sem>>

\* the request's coroutine ends with result res
EndWith(r, res) ==
    /\ pc' = [pc EXCEPT ![r] = "done"]
    /\ result' = [result EXCEPT ![r] = res]

\* the request reaches an endpoint; the handler goes to `async with _semaphore`
Arrive(r) ==
    /\ pc[r] = "idle"
    /\ pc' = [pc EXCEPT ![r] = "acquire"]
    /\ UNCHANGED <<config, sem, i, started, last_error, proc, timed_out, out,
                   attempts, result, holds, gone>>

\* the websocket path calls the orchestrator outside `async with _semaphore`
AcquireWsUngated(r) ==
    /\ pc[r] = "acquire"
    /\ app[r] # BridgeApp
    /\ IF endpoint[r] \in {"ws", "ws_stream"}
       THEN KeepGate
       ELSE /\ sem[app[r]] > 0
            /\ sem' = [sem EXCEPT ![app[r]] = @ - 1]
            /\ holds' = [holds EXCEPT ![r] = TRUE]
    /\ pc' = [pc EXCEPT ![r] = "loop"]
    /\ i' = [i EXCEPT ![r] = 0]
    /\ UNCHANGED <<config, started, last_error, proc, timed_out, out,
                   attempts, result, gone>>

\* a per-model proxy app: the slot is taken and the fallback walk starts
Acquire(r) ==
    /\ pc[r] = "acquire"
    /\ app[r] # BridgeApp
    /\ sem[app[r]] > 0
    /\ sem' = [sem EXCEPT ![app[r]] = @ - 1]
    /\ holds' = [holds EXCEPT ![r] = TRUE]
    /\ pc' = [pc EXCEPT ![r] = "loop"]
    /\ i' = [i EXCEPT ![r] = 0]
    /\ UNCHANGED <<config, started, last_error, proc, timed_out, out,
                   attempts, result, gone>>

\* the bridge app calls run_with_fallback(request, decision) and
\* stream_with_fallback(request, decision): two arguments for three
\* parameters, a TypeError at the call; the slot is taken and given back
\* without a suspension in between
BridgeCall(r) ==
    /\ pc[r] = "acquire"
    /\ app[r] = BridgeApp
    /\ sem[app[r]] > 0
    /\ EndWith(r, [kind |-> "exception", model |-> "-",
                   error |-> [model |-> "-", why |-> "TypeError"]])
    /\ UNCHANGED <<config, sem, i, started, last_error, proc, timed_out, out,
                   attempts, holds, gone>>

\* ------------------------------------------------ the fallback orchestrator
ExceptionResult(name) ==
    [kind |-> "exception", model |-> "-", error |-> [model |-> "-", why |-> name]]

\* run_with_fallback, `except RuntimeError as e` for the attempt on chain[i]:
\* record the error, then stop (raise the aggregate error, which the endpoint
\* turns into a 502 / an error message after leaving `async with`) or go on
RunOnRuntimeError(r, why) ==
    LET err == [model |-> Mc(r), why |-> why]
    IN  /\ last_error' = [last_error EXCEPT ![r] = err]
        /\ out' = out
        /\ IF WalkEnds(r)
           THEN /\ EndWith(r, [kind |-> "all_failed",
                               model |-> NamedOnExhaustion(Chain(r)),
                               error |-> err])
                /\ Release(r)
                /\ i' = i
           ELSE /\ pc' = [pc EXCEPT ![r] = "loop"]
                /\ i' = [i EXCEPT ![r] = @ + 1]
                /\ result' = result
                /\ KeepGate

\* `started` is not consulted
AlreadySentIgnored(st) == FALSE

\* `if started:` (line 104): chunks were already sent for this attempt
AlreadySent(st) == st

\* stream_with_fallback, `except RuntimeError as e` for the attempt on
\* chain[i]; st is the value of `started`
StreamOnRuntimeError(r, why, st) ==
    LET err == [model |-> Mc(r), why |-> why]
    IN  /\ last_error' = [last_error EXCEPT ![r] = err]
        /\ IF AlreadySent(st)
           THEN \* yield f"\n\n[Error: {e}]", mc
                /\ out' = [out EXCEPT ![r] = Append(@, [kind |-> "error", model |-> Mc(r)])]
                /\ pc' = [pc EXCEPT ![r] = "yield_err"]
                /\ UNCHANGED <<i, result>>
                /\ KeepGate
           ELSE /\ out' = out
                /\ IF WalkEnds(r)
                   THEN \* raise RuntimeError("All stream models failed ...")
                        /\ i' = i
                        /\ result' = [result EXCEPT ![r] =
                               [kind |-> "all_failed", model |-> "-", error |-> err]]
                        /\ IF endpoint[r] = "sse"
                           THEN \* _stream_sse yields the error chunk inside
                                \* `async with _semaphore`
                                /\ pc' = [pc EXCEPT ![r] = "sse_err"]
                                /\ KeepGate
                           ELSE \* websocket: send the error, `continue`
                                /\ pc' = [pc EXCEPT ![r] = "done"]
                                /\ Release(r)
                   ELSE /\ pc' = [pc EXCEPT ![r] = "loop"]
                        /\ i' = [i EXCEPT ![r] = @ + 1]
                        /\ result' = result
                        /\ KeepGate

OnRuntimeError(r, why, st) ==
    IF IsStream(endpoint[r]) THEN StreamOnRuntimeError(r, why, st)
                             ELSE RunOnRuntimeError(r, why)

\* an exception that is not a RuntimeError passes through the orchestrator
\* and through the endpoint's `except RuntimeError`; `async with` is left
OnOtherException(r, name) ==
    /\ EndWith(r, ExceptionResult(name))
    /\ Release(r)
    /\ UNCHANGED <<i, last_error, out>>

\* what asyncio.create_subprocess_exec can do: start the child, raise
\* NotImplementedError (a RuntimeError: event loops without subprocess
\* support, as the selector loop start.py selects on win32), or raise
\* FileNotFoundError (an OSError: the CLI binary is missing)
SpawnOutcomes == {"ok", "NotImplementedError", "FileNotFoundError"}

\* one loop iteration begins: the executor (run_claude / stream_claude) is
\* invoked on chain[i] and creates the child process
Spawn(r, o) ==
    /\ pc[r] = "loop"
    /\ attempts' = [attempts EXCEPT ![r] = Append(@, Mc(r))]
    /\ started' = [started EXCEPT ![r] = FALSE]
    /\ timed_out' = [timed_out EXCEPT ![r] = FALSE]
    /\ CASE o = "ok" ->
              /\ proc' = [proc EXCEPT ![r] = "running"]
              /\ pc' = [pc EXCEPT ![r] = IF IsStream(endpoint[r]) THEN "sc_read" ELSE "rc_wait"]
              /\ UNCHANGED <<i, last_error, out, result>>
              /\ KeepGate
         [] o = "NotImplementedError" ->
              /\ proc' = [proc EXCEPT ![r] = "none"]
              /\ OnRuntimeError(r, "spawn", FALSE)
         [] o = "FileNotFoundError" ->
              /\ proc' = [proc EXCEPT ![r] = "none"]
              /\ OnOtherException(r, "FileNotFoundError")
    /\ UNCHANGED <<config, gone>>

\* ------------------------------------------------------------ run_claude
\* process.communicate() returns: the child has exited; `empty` tells
\* whether its stripped stdout is empty
RunReturns(r, empty) ==
    /\ pc[r] = "rc_wait"
    /\ ProcExited(r)
    /\ IF proc[r] = "exitN"
       THEN OnRuntimeError(r, "exit_nonzero", FALSE)
       ELSE IF empty
            THEN OnRuntimeError(r, "empty_output", FALSE)
            ELSE /\ EndWith(r, [kind |-> "ok", model |-> Mc(r), error |-> NoError])
                 /\ Release(r)
                 /\ UNCHANGED <<i, last_error, out>>
    /\ UNCHANGED <<config, started, proc, timed_out, attempts, gone>>

\* the timeout is reported without killing the child
RunTimeoutNoKill(r) ==
    /\ pc[r] = "rc_wait"
    /\ proc[r] = "running"
    /\ proc' = proc
    /\ timed_out' = [timed_out EXCEPT ![r] = TRUE]
    /\ OnRuntimeError(r, "timeout", FALSE)
    /\ UNCHANGED <<config, started, attempts, gone>>

\* asyncio.wait_for times out: process.kill(), process.wait(), RuntimeError
RunTimeout(r) ==
    /\ pc[r] = "rc_wait"
    /\ proc[r] = "running"
    /\ proc' = [proc EXCEPT ![r] = "killed"]
    /\ timed_out' = [timed_out EXCEPT ![r] = TRUE]
    /\ OnRuntimeError(r, "timeout", FALSE)
    /\ UNCHANGED <<config, started, attempts, gone>>

\* --------------------------------------------------------- stream_claude
\* what one line of child output does in _extract_text_from_ndjson_line:
\*   text       a text-bearing event or raw text: a fragment is yielded
\*   skip       an empty line or a non-text event: nothing is yielded
\*   recursion  JSON nested deeper than the recursion limit: json.loads
\*              raises RecursionError, a RuntimeError
\*   notobject  a JSON value that is no object: data.get raises AttributeError
\*   overlong   a line longer than the StreamReader limit (64 KiB): readline
\*              raises ValueError
LineKinds == {"text", "skip", "recursion", "notobject", "overlong"}

\* stream_with_fallback leaves its loop with `return` (line 99): the
\* consumer's `async for` ends and `async with _semaphore` is left
StreamReturns(r) ==
    /\ EndWith(r, [kind |-> "complete", model |-> Mc(r), error |-> NoError])
    /\ Release(r)

\* readline() returns a line
ReadLine(r, k) ==
    /\ pc[r] = "sc_read"
    /\ proc[r] = "running"
    /\ CASE k = "text" ->
              \* stream_claude yields text; stream_with_fallback sets
              \* started and yields (text, mc)
              /\ Len(out[r]) < MaxFrags
              /\ out' = [out EXCEPT ![r] = Append(@, [kind |-> "text", model |-> Mc(r)])]
              /\ started' = [started EXCEPT ![r] = TRUE]
              /\ pc' = [pc EXCEPT ![r] = "yield"]
              /\ UNCHANGED <<i, last_error, result, proc>>
              /\ KeepGate
         [] k = "skip" ->
              /\ UNCHANGED <<pc, out, started, i, last_error, result, proc>>
              /\ KeepGate
         [] k = "recursion" ->
              \* except Exception: process.kill(); process.wait(); raise
              /\ proc' = [proc EXCEPT ![r] = "killed"]
              /\ started' = started
              /\ StreamOnRuntimeError(r, "bad_line", started[r])
         [] k = "notobject" ->
              /\ proc' = [proc EXCEPT ![r] = "killed"]
              /\ started' = started
              /\ OnOtherException(r, "AttributeError")
         [] k = "overlong" ->
              /\ proc' = [proc EXCEPT ![r] = "killed"]
              /\ started' = started
              /\ OnOtherException(r, "ValueError")
    /\ UNCHANGED <<config, timed_out, attempts, gone>>

\* readline() returns b"": the child closed its output and exited; the loop
\* breaks, process.wait() returns at once, a non-zero return code is only
\* logged, and the generator ends
ReadEOF(r) ==
    /\ pc[r] = "sc_read"
    /\ ProcExited(r)
    /\ StreamReturns(r)
    /\ UNCHANGED <<config, i, started, last_error, proc, timed_out, out,
                   attempts, gone>>

\* asyncio.wait_for(readline) times out: the error is logged, the loop
\* breaks and the generator awaits process.wait()
ReadTimeout(r) ==
    /\ pc[r] = "sc_read"
    /\ proc[r] = "running"
    /\ timed_out' = [timed_out EXCEPT ![r] = TRUE]
    /\ pc' = [pc EXCEPT ![r] = "sc_wait"]
    /\ UNCHANGED <<config, sem, i, started, last_error, proc, out, attempts,
                   result, holds, gone>>

\* process.wait() after a timed-out read returns: the child has exited
WaitReturns(r) ==
    /\ pc[r] = "sc_wait"
    /\ ProcExited(r)
    /\ StreamReturns(r)
    /\ UNCHANGED <<config, i, started, last_error, proc, timed_out, out,
                   attempts, gone>>

\* the consumer took the fragment and asks for the next one
ResumeStream(r) ==
    /\ pc[r] = "yield"
    /\ ~gone[r]
    /\ pc' = [pc EXCEPT ![r] = "sc_read"]
    /\ UNCHANGED <<config, sem, i, started, last_error, proc, timed_out, out,
                   attempts, result, holds, gone>>

\* the consumer took the error fragment (stream_with_fallback then returns)
\* or the error chunk of _stream_sse; `async with _semaphore` is left
ResumeAfterError(r) ==
    /\ pc[r] \in {"yield_err", "sse_err"}
    /\ ~gone[r]
    /\ pc' = [pc EXCEPT ![r] = "done"]
    /\ result' = [result EXCEPT ![r] =
           IF pc[r] = "yield_err"
           THEN [kind |-> "error_fragment", model |-> Mc(r), error |-> last_error[r]]
           ELSE @]
    /\ Release(r)
    /\ UNCHANGED <<config, i, started, last_error, proc, timed_out, out,
                   attempts, gone>>

\* ----------------------------------------------- disconnect / cancellation
CancelledResult == [kind |-> "cancelled", model |-> "-", error |-> NoError]

InFlight(r) == pc[r] \notin {"absent", "idle", "done"}

\* the consumer disconnects, or the task serving the request is cancelled
ConsumerLeaves(r) ==
    /\ InFlight(r)
    /\ ~gone[r]
    /\ gone' = [gone EXCEPT ![r] = TRUE]
    /\ UNCHANGED <<config, sem, pc, i, started, last_error, proc, timed_out,
                   out, attempts, result, holds>>

\* HTTP requests: CancelledError is raised at the await the coroutine is
\* suspended in.  It is no Exception, so only `finally` blocks and
\* `async with` see it:
\*   stream_claude (readline, process.wait): finally kills a running child
\*   run_claude (communicate): no handler, the child is left alone
\*   Semaphore.acquire: no slot was taken
\* A websocket handler has no such await: it learns of the disconnect only
\* from ws.send_json.
DeliverCancel(r) ==
    /\ gone[r]
    /\ endpoint[r] \in {"post", "sse"}
    /\ \/ /\ pc[r] \in {"sc_read", "sc_wait"}
          /\ proc' = [proc EXCEPT ![r] = IF @ = "running" THEN "killed" ELSE @]
          /\ Release(r)
       \/ /\ pc[r] = "rc_wait"
          /\ proc' = proc
          /\ Release(r)
       \/ /\ pc[r] = "acquire"
          /\ sem[app[r]] = 0
          /\ proc' = proc
          /\ KeepGate
    /\ EndWith(r, CancelledResult)
    /\ UNCHANGED <<config, i, started, last_error, timed_out, out, attempts, gone>>

\* sending a fragment to a consumer that is gone fails.  Websocket:
\* WebSocketDisconnect leaves `async with` at once.  SSE: the response is
\* dropped with _stream_sse suspended at its yield, inside `async with`.
SendFails(r) ==
    /\ gone[r]
    /\ pc[r] \in {"yield", "yield_err", "sse_err"}
    /\ result' = [result EXCEPT ![r] = IF @.kind = "none" THEN CancelledResult ELSE @]
    /\ IF endpoint[r] = "ws_stream"
       THEN /\ pc' = [pc EXCEPT ![r] = "finalize"]
            /\ Release(r)
       ELSE /\ pc' = [pc EXCEPT ![r] = "abandoned"]
            /\ KeepGate
    /\ UNCHANGED <<config, i, started, last_error, proc, timed_out, out,
                   attempts, gone>>

\* the dropped _stream_sse generator is closed by the event loop's
\* async-generator finalizer: GeneratorExit at its yield leaves `async with`
CloseOuter(r) ==
    /\ pc[r] = "abandoned"
    /\ pc' = [pc EXCEPT ![r] = "finalize"]
    /\ Release(r)
    /\ UNCHANGED <<config, i, started, last_error, proc, timed_out, out,
                   attempts, result, gone>>

\* the dropped stream_with_fallback / stream_claude generators are closed:
\* GeneratorExit at the yield of stream_claude runs its `finally`
CloseInner(r) ==
    /\ pc[r] = "finalize"
    /\ proc' = [proc EXCEPT ![r] = IF @ = "running" THEN "killed" ELSE @]
    /\ pc' = [pc EXCEPT ![r] = "done"]
    /\ UNCHANGED <<config, sem, i, started, last_error, timed_out, out,
                   attempts, result, holds, gone>>

\* ------------------------------------------------------ the child process
ExitCodes == {"exit0", "exitN"}

\* the child exits on its own
ChildExits(r, code) ==
    /\ proc[r] = "running"
    /\ proc' = [proc EXCEPT ![r] = code]
    /\ UNCHANGED <<config, sem, pc, i, started, last_error, timed_out, out,
                   attempts, result, holds, gone>>

\* ------------------------------------------------- validation and routing
\* the handler calls route_request on rq with its model field set to m
Resolve(rq, m) ==
    LET d == route_request([rq EXCEPT !.model = m], routing_settings,
                           DEFAULT_FALLBACK_CHAINS)
    IN  /\ routed' = Routed(m, d)
        /\ DEFAULT_FALLBACK_CHAINS' =
               TablesAfter(DEFAULT_FALLBACK_CHAINS, routing_settings, d)

Reject ==
    /\ routed' = Rejected
    /\ UNCHANGED DEFAULT_FALLBACK_CHAINS

\* chat_completions and websocket_endpoint of the proxy app of model a, up
\* to the call of the orchestrator
ProxyChat(a, rq) ==
    /\ request' = [via |-> a, model |-> rq.model, messages |-> rq.messages,
                   hits |-> rq.hits]
    /\ IF to_prompt(rq.messages).prompt = 0 THEN Reject
       ELSE IF routing_settings.smart_routing_enabled
               /\ Lower(rq.model) \in SmartNames
            THEN Resolve(rq, rq.model)
            ELSE Resolve(rq, model_id[a])
    /\ UNCHANGED <<Orchestrator, routing_settings, served, adapter_call,
                   http_stream>>

\* chat_completions and websocket_endpoint of the bridge app
BridgeChat(rq) ==
    /\ request' = [via |-> BridgeApp, model |-> rq.model,
                   messages |-> rq.messages, hits |-> rq.hits]
    /\ IF ~AnyContent(rq.messages) THEN Reject
       ELSE LET model_key == LowerStrip(rq.model)
                mc == MapGet(model_key)
            IN  IF routing_settings.smart_routing_enabled
                   /\ model_key \in SmartNames \cup {""}
                THEN Resolve(rq, rq.model)
                ELSE IF mc = None THEN Resolve(rq, rq.model)
                ELSE Resolve(rq, model_id[mc])
    /\ UNCHANGED <<Orchestrator, routing_settings, served, adapter_call,
                   http_stream>>

\* route_request called on rq as it is
RouteCall(rq) ==
    /\ request' = [via |-> "route_request", model |-> rq.model,
                   messages |-> rq.messages, hits |-> rq.hits]
    /\ Resolve(rq, rq.model)
    /\ UNCHANGED <<Orchestrator, routing_settings, served, adapter_call,
                   http_stream>>

\* ------------------------------------------------------------ run_model
\* run_model(request, model_config) is called on model m: the adapter is
\* chosen and awaits its backend
RunModel(m) ==
    /\ adapter_call.phase \in {"idle", "ended"}
    /\ adapter_call' = [NoCall EXCEPT !.model = m, !.phase = "awaiting",
                                      !.adapter = AdapterFor(provider_type[m])]
    /\ UNCHANGED <<Orchestrator, routing, http_stream>>

\* the claude CLI child behaves as b and run_claude ends
CliOutcome(b) ==
    /\ adapter_call.phase = "awaiting"
    /\ adapter_call.adapter = "subprocess"
    /\ adapter_call' = [adapter_call EXCEPT !.phase = "ended", !.how = b.how,
                            !.code = b.code, !.body = b.body,
                            !.raised = run_claude(b)]
    /\ UNCHANGED <<Orchestrator, routing, http_stream>>

\* the HTTP provider behaves as b and run_http ends
HttpOutcome(b) ==
    /\ adapter_call.phase = "awaiting"
    /\ adapter_call.adapter = "http"
    /\ adapter_call' = [adapter_call EXCEPT !.phase = "ended", !.how = b.how,
                            !.code = b.code, !.body = b.body,
                            !.raised = run_http(b)]
    /\ UNCHANGED <<Orchestrator, routing, http_stream>>

\* ---------------------------------------------------------- stream_model
\* stream_model on a model of an HTTP provider: stream_http posts the request
\* and the provider answers with status `code` and, in time, `lines`
StreamHttp(m, code, lines) ==
    /\ provider_type[m] = "http"
    /\ http_stream.phase = "idle"
    /\ http_stream' =
           IF code # 200
           THEN [NoStream EXCEPT !.model = m, !.phase = "ended", !.code = code,
                                 !.lines = lines, !.raised = "RuntimeError"]
           ELSE [NoStream EXCEPT !.model = m, !.phase = "reading", !.code = code,
                                 !.lines = lines]
    /\ UNCHANGED <<Orchestrator, routing, adapter_call>>

\* aiter_lines() hands over the next line
StreamLine ==
    /\ http_stream.phase = "reading"
    /\ http_stream.at < Len(http_stream.lines)
    /\ LET line == http_stream.lines[http_stream.at + 1]
           does == stream_http_line(line)
       IN  http_stream' =
               [http_stream EXCEPT
                   !.at = @ + 1,
                   !.phase = IF does \in {"continue", "yield"} THEN "reading"
                             ELSE "ended",
                   !.yielded = IF does = "yield" THEN Append(@, line.content) ELSE @,
                   !.raised = IF does \in {"continue", "yield", "break"} THEN None
                              ELSE does]
    /\ UNCHANGED <<Orchestrator, routing, adapter_call>>

\* the provider closes the connection: aiter_lines() is exhausted
StreamClose ==
    /\ http_stream.phase = "reading"
    /\ http_stream.at = Len(http_stream.lines)
    /\ http_stream' = [http_stream EXCEPT !.phase = "ended"]
    /\ UNCHANGED <<Orchestrator, routing, adapter_call>>

\* the handler is left: its request and its decision are dropped
HandlerReturns ==
    /\ request # NoRequest
    /\ request' = NoRequest
    /\ routed' = NotRouted
    /\ served' = TRUE
    /\ UNCHANGED <<Orchestrator, routing_settings, DEFAULT_FALLBACK_CHAINS,
                   adapter_call, http_stream>>

\* ------------------------------------------------------- specifications
Next ==
    \/ \E r \in Reqs : Arrive(r)
    \/ \E r \in Reqs : Acquire(r)
    \/ \E r \in Reqs : BridgeCall(r)
    \/ \E r \in Reqs : \E o \in SpawnOutcomes : Spawn(r, o)
    \/ \E r \in Reqs : \E e \in BOOLEAN : RunReturns(r, e)
    \/ \E r \in Reqs : RunTimeout(r)
    \/ \E r \in Reqs : \E k \in LineKinds : ReadLine(r, k)
    \/ \E r \in Reqs : ReadEOF(r)
    \/ \E r \in Reqs : ReadTimeout(r)
    \/ \E r \in Reqs : WaitReturns(r)
    \/ \E r \in Reqs : ResumeStream(r)
    \/ \E r \in Reqs : ResumeAfterError(r)
    \/ \E r \in Reqs : ConsumerLeaves(r)
    \/ \E r \in Reqs : DeliverCancel(r)
    \/ \E r \in Reqs : SendFails(r)
    \/ \E r \in Reqs : CloseOuter(r)
    \/ \E r \in Reqs : CloseInner(r)
    \/ \E r \in Reqs : \E c \in ExitCodes : ChildExits(r, c)

Spec == Init /\ [][Next]_vars

SpecGate == InitGate /\ [][Next]_vars

\* The steps the event loop itself takes for request r: everything but the
\* arrival of requests, the consumer going away and what the child does
\* (its output and its exit).  A timer that is armed fires.
LoopStep(r) ==
    \/ Acquire(r)
    \/ BridgeCall(r)
    \/ \E o \in SpawnOutcomes : Spawn(r, o)
    \/ \E e \in BOOLEAN : RunReturns(r, e)
    \/ RunTimeout(r)
    \/ ReadEOF(r)
    \/ ReadTimeout(r)
    \/ WaitReturns(r)
    \/ ResumeStream(r)
    \/ ResumeAfterError(r)
    \/ DeliverCancel(r)
    \/ SendFails(r)
    \/ CloseOuter(r)
    \/ CloseInner(r)

FairSpec == Init /\ [][Next]_vars /\ \A r \in Reqs : WF_vars(LoopStep(r))

\* the gate under contention, the event loop taking its steps
FairGate == InitGate /\ [][Next]_vars /\ \A r \in Reqs : WF_vars(LoopStep(r))

\* chat requests reaching the handlers one after the other, under every
\* routing configuration; no orchestrator call is in flight
InitRoute ==
    /\ InitOrchestrator({}, Decisions, {0}, {1}, {"A"}, [r \in Reqs |-> Endpoints])
    /\ InitRouting(RoutingSettings)

\* the part of a handler modelled here has no await: the handlers run it
\* one at a time
Incoming == IF request = NoRequest THEN ChatRequests ELSE {}

NextRoute ==
    \/ \E a \in {"C"} : \E rq \in Incoming : ProxyChat(a, rq)
    \/ \E rq \in Incoming : BridgeChat(rq)
    \/ \E rq \in Incoming : RouteCall(rq)
    \/ HandlerReturns

SpecRoute == InitRoute /\ [][NextRoute]_vars

\* calls of run_model on every model, against every behaviour of the backend
NextAdapter ==
    \/ \E m \in ModelNames : RunModel(m)
    \/ \E b \in CliBehaviours : CliOutcome(b)
    \/ \E b \in HttpBehaviours : HttpOutcome(b)

InitAdapter ==
    /\ InitOrchestrator({}, Decisions, {0}, {1}, {"A"}, [r \in Reqs |-> Endpoints])
    /\ InitRouting({DefaultSettings})

SpecAdapter == InitAdapter /\ [][NextAdapter]_vars

\* calls of stream_http against every event stream of up to MaxLines lines
NextStream ==
    \/ \E m \in ModelNames : \E code \in {200, 503} :
           \E lines \in SeqsUpTo(SseLines, MaxLines) : StreamHttp(m, code, lines)
    \/ StreamLine
    \/ StreamClose

SpecStream == InitAdapter /\ [][NextStream]_vars

TypeOK ==
    /\ max_attempts \in Budgets
    /\ max_concurrent \in Concs
    /\ endpoint \in [Reqs -> Endpoints]
    /\ sem \in [Apps -> Nat]
    /\ pc \in [Reqs -> {"absent", "idle", "acquire", "loop", "rc_wait", "sc_read",
                        "sc_wait", "yield", "yield_err", "sse_err", "abandoned",
                        "finalize", "done"}]
    /\ i \in [Reqs -> 0..MaxChain]
    /\ proc \in [Reqs -> {"none", "running", "killed"} \cup ExitCodes]
    /\ \A r \in Reqs : Len(out[r]) <= MaxFrags + 1

\* ======================================================================
\* Properties
\* ======================================================================
Last(q) == q[Len(q)]
IsPrefix(p, q) == Len(p) <= Len(q) /\ \A j \in 1..Len(p) : p[j] = q[j]
Streaming(r) == pc[r] # "absent" /\ IsStream(endpoint[r])
NonStreaming(r) == pc[r] # "absent" /\ ~IsStream(endpoint[r])

\* [primary] + the first max_attempts entries of the fallback chain, written
\* out from the decision and the setting
AttemptChain(r) ==
    LET fb == decision[r].fallback_chain
        n  == IF max_attempts >= 0 THEN Min(max_attempts, Len(fb))
              ELSE Max(Len(fb) + max_attempts, 0)
    IN  <<decision[r].model>> \o [j \in 1..n |-> fb[j]]

\* the streamed attempt on chain[i] failed the way the child fails: it
\* exited non-zero, or a read of its output timed out
ChildFailed(r) == proc[r] = "exitN" \/ timed_out[r]

\* C1: in stream_with_fallback every fragment yielded after a fragment
\* attributed to model M is attributed to M, and an error fragment is the
\* last fragment of the stream (so there is at most one).
C1_NoModelSwitchMidStream ==
    \A r \in Reqs :
        \A j \in 1..Len(out[r]) :
            /\ out[r][j].model = out[r][1].model
            /\ out[r][j].kind = "error" => j = Len(out[r])

\* C1 witness: a stream that yielded text of one model, then failed and
\* yielded the error fragment, while a further chain entry was still there.
C1_Witness ==
    \E r \in Reqs :
        /\ Len(out[r]) >= 3
        /\ Last(out[r]).kind = "error"
        /\ i[r] + 1 < Len(Chain(r))
        /\ Chain(r)[i[r] + 2] # Mc(r)
        /\ i[r] < max_attempts

\* C2: a streamed attempt that fails before any fragment (child exits
\* non-zero without output, or a read times out), with a further chain entry
\* inside the budget, is reported to the orchestrator and the next entry is
\* attempted: the stream never just ends there.
C2_PreOutputFailureAdvances ==
    \A r \in Reqs :
        (/\ Streaming(r)
         /\ out[r] = <<>>
         /\ ChildFailed(r)
         /\ ~WalkEnds(r)
         /\ pc[r] = "done"
         /\ ~gone[r])
        => /\ result[r].kind # "complete"
           /\ last_error[r].model = Mc(r)

\* C3: a streamed attempt on M that fails after at least one fragment ends
\* with exactly one error fragment attributed to M as the last fragment, and
\* no other model is attempted.
C3_MidStreamFailureYieldsError ==
    \A r \in Reqs :
        (/\ Streaming(r)
         /\ out[r] # <<>>
         /\ ChildFailed(r)
         /\ pc[r] = "done"
         /\ ~gone[r])
        => /\ Last(out[r]).kind = "error"
           /\ Last(out[r]).model = Mc(r)
           /\ Last(attempts[r]) = Mc(r)

\* C4: run_with_fallback invokes the executor on the entries of
\* [primary] + fallback_chain[:max_attempts] in that order, and on a success
\* returns the model of the last invocation: nothing is invoked after it.
C4_InOrderUntilFirstSuccess ==
    \A r \in Reqs :
        NonStreaming(r) =>
            /\ IsPrefix(attempts[r], AttemptChain(r))
            /\ result[r].kind = "ok" =>
                  /\ attempts[r] # <<>>
                  /\ result[r].model = Last(attempts[r])
                  /\ result[r].model = AttemptChain(r)[Len(attempts[r])]

\* C4 witness: A failed, B succeeded, C was never invoked.
C4_Witness ==
    \E r \in Reqs :
        /\ NonStreaming(r)
        /\ result[r].kind = "ok"
        /\ Len(attempts[r]) = 2
        /\ Len(AttemptChain(r)) = 3
        /\ Cardinality({AttemptChain(r)[j] : j \in 1..3}) = 3

\* C5: when every attempt fails, run_with_fallback raises one aggregate
\* error that names the last model actually attempted and carries that
\* model's error, and only the primary and the first max_attempts fallback
\* candidates were invoked -- for every chain and every configured budget.
C5_AggregateNamesLastAttempted ==
    \A r \in Reqs :
        (NonStreaming(r) /\ result[r].kind = "all_failed") =>
            /\ result[r].model = Last(attempts[r])
            /\ result[r].error.model = Last(attempts[r])
            /\ Len(attempts[r]) <= 1 + Max(max_attempts, 0)

\* request r executes inside run_with_fallback / stream_with_fallback
Inside(r) == pc[r] \in {"loop", "rc_wait", "sc_read", "sc_wait", "yield", "yield_err"}

Holders(a) == {r \in Reqs : holds[r] /\ app[r] = a}

\* C6: the number of requests executing inside run_with_fallback or
\* stream_with_fallback in the server process, over all endpoints of all
\* apps, is at most max_concurrent.
C6_ProcessWideBound ==
    Cardinality({r \in Reqs : Inside(r)}) <= max_concurrent

\* C7: every acquisition of the admission gate is matched by exactly one
\* release on every exit path: free slots plus held slots are the capacity,
\* free slots never exceed it, a finished request holds nothing, and with no
\* request in flight every slot is free.
C7_GateBalanced ==
    /\ \A a \in Apps :
          /\ sem[a] + Cardinality(Holders(a)) = max_concurrent
          /\ sem[a] <= max_concurrent
          /\ (\A r \in Reqs : ~InFlight(r)) => sem[a] = max_concurrent
    /\ \A r \in Reqs : pc[r] \in {"idle", "acquire", "done"} => ~holds[r]

\* C7 witness: nothing is in flight any more after one request was cancelled
\* in the middle of its stream and another one exhausted its chain.
C7_Witness ==
    /\ \A r \in Reqs : pc[r] = "done"
    /\ \E r \in Reqs : result[r].kind = "cancelled" /\ out[r] # <<>>
    /\ \E r \in Reqs : result[r].kind = "all_failed"

\* C8: when the consumer of a streamed response is gone while the child of
\* the active attempt runs, that child is eventually no longer running and
\* the request's slot is eventually released.
C8_DisconnectEndsChild ==
    \A r \in Reqs :
        (Streaming(r) /\ gone[r] /\ proc[r] = "running")
            ~> (proc[r] # "running" /\ ~holds[r])

\* C9: in stream_claude a read that times out gets the child killed and an
\* error surfaced to the orchestrator; the generator does not wait for the
\* child to exit on its own.
C9_ReadTimeoutKillsChild ==
    \A r \in Reqs :
        (Streaming(r) /\ timed_out[r]) =>
            /\ proc[r] = "killed"
            /\ last_error[r].why = "timeout"
            /\ pc[r] # "sc_wait"

\* C10: a non-streaming attempt (run_claude) that has ended -- normally,
\* with a non-zero exit, with empty output, by timeout or by cancellation --
\* leaves no running child process.
C10_NoChildLeftRunning ==
    \A r \in Reqs :
        (NonStreaming(r) /\ pc[r] \in {"loop", "done"}) => proc[r] # "running"

\* ----------------------------------------------- validation and routing
\* a handler (not a bare call of route_request) has dealt with a request
Handled == request # NoRequest /\ request.via # "route_request"
WasRouted == routed.status = "routed"

\* the chain with every occurrence of m taken out, the rest in order
RECURSIVE Removed(_, _)
Removed(chain, m) ==
    IF chain = <<>> THEN <<>>
    ELSE (IF Head(chain) = m THEN <<>> ELSE <<Head(chain)>>)
             \o Removed(Tail(chain), m)

\* the chain of the scenario the request was classified into
ScenarioChain ==
    get_fallback_chain(routed.scenario, routing_settings, DEFAULT_FALLBACK_CHAINS)

\* the model field route_request saw names a model of the registry
NamesModel ==
    /\ LowerStrip(routed.model) \in DOMAIN MODEL_MAP
    /\ LowerStrip(routed.model) \notin SmartNames

\* C11: a request none of whose messages has non-empty content is rejected
\* by the handler, on the proxy apps and on the bridge app, before
\* route_request is called.
C11_EmptyRequestRejected ==
    (Handled /\ ~AnyContent(request.messages)) => routed.status = "rejected"

\* C12: the fallback chain of a decision route_request returned never
\* contains the decision's primary model.
C12_PrimaryNotInFallback ==
    WasRouted =>
        \A j \in 1..Len(routed.fallback_chain) :
            routed.fallback_chain[j] # routed.primary

\* an explicit request under an override list that names the requested model
C12_Witness ==
    /\ WasRouted /\ NamesModel
    /\ routing_settings.fallback_overrides[routed.scenario] # <<>>
    /\ \E j \in 1..Len(ScenarioChain) : ScenarioChain[j] = routed.primary
    /\ routed.fallback_chain # <<>>

\* C13: the fallback chain of a decision route_request returned contains no
\* model twice, whatever the override list of the scenario.
C13_FallbackHasNoDuplicates ==
    WasRouted =>
        \A j, k \in 1..Len(routed.fallback_chain) :
            j # k => routed.fallback_chain[j] # routed.fallback_chain[k]

\* C14: when the model field names a model of the registry and is not a
\* smart-routing name, that model is the primary whatever the scenario, and
\* the fallback chain is the scenario's chain without it, in order.
C14_ExplicitModelHonoured ==
    (WasRouted /\ NamesModel) =>
        /\ routed.primary = MODEL_MAP[LowerStrip(routed.model)]
        /\ routed.fallback_chain = Removed(ScenarioChain, routed.primary)

\* the requested model is not the one the scenario would choose, and it is
\* in the middle of the scenario's chain
C14_Witness ==
    /\ WasRouted /\ NamesModel
    /\ routed.primary # get_scenario_model(routed.scenario, routing_settings)
    /\ Len(ScenarioChain) = 3 /\ ScenarioChain[2] = routed.primary
    /\ Len(routed.fallback_chain) = 2

\* what route_request saw, with the model field replaced by "auto"
AsAuto == [model |-> "auto", messages |-> request.messages, hits |-> request.hits]

\* C15: when the model field does not resolve in the registry, route_request
\* returns the decision it returns for the same request with model "auto".
C15_UnknownModelRoutedAsAuto ==
    (WasRouted /\ LowerStrip(routed.model) \notin DOMAIN MODEL_MAP) =>
        LET d == route_request(AsAuto, routing_settings, DEFAULT_FALLBACK_CHAINS)
        IN  /\ routed.scenario = d.scenario
            /\ routed.primary = d.model
            /\ routed.fallback_chain = d.fallback_chain

\* an identifier that is neither in the registry nor a smart-routing name,
\* routed to a model other than SONNET
C15_Witness ==
    /\ WasRouted
    /\ LowerStrip(routed.model) \notin DOMAIN MODEL_MAP \cup SmartNames \cup {""}
    /\ routed.primary # "B"

\* C16: when the token estimate exceeds the long-context threshold the
\* scenario is long-context, whatever the four scores would be.
C16_LongContextWins ==
    (WasRouted /\ estimate_request_tokens(request.messages)
                      > routing_settings.long_threshold)
        => routed.scenario = "long"

\* over the threshold with scores that would otherwise decide for complex
C16_Witness ==
    /\ WasRouted
    /\ estimate_request_tokens(request.messages) > routing_settings.long_threshold
    /\ Scores(request.messages, request.hits).complex >= 3
    /\ routed.scenario = "long"

\* C17: a request is classified and routed the same way whatever requests
\* were handled before it: the decision is the one route_request returns in
\* a fresh process, where DEFAULT_FALLBACK_CHAINS has its initial value.
C17_RoutingDeterministic ==
    WasRouted =>
        LET d == route_request([model |-> routed.model,
                                messages |-> request.messages,
                                hits |-> request.hits],
                               routing_settings, InitialFallbackChains)
        IN  /\ routed.scenario = d.scenario
            /\ routed.primary = d.model
            /\ routed.fallback_chain = d.fallback_chain

\* a request routed after another handler has returned
C17_Witness == WasRouted /\ served /\ routed.fallback_chain # <<>>

\* -------------------------------------------------- responses and adapters
\* a client-error status for the aggregate failure
HttpResponseClientError(res) ==
    CASE res.kind = "ok" -> [status |-> 200, body |-> "completion"]
      [] res.kind = "all_failed" -> [status |-> 400, body |-> "detail"]
      [] res.kind = "exception" -> [status |-> 500, body |-> "detail"]
      [] OTHER -> [status |-> 0, body |-> "-"]

\* the HTTP response of a non-streaming chat_completions call that ended
\* with res: the completion; HTTPException(502) for the RuntimeError of
\* run_with_fallback; any other exception leaves the handler and is answered
\* with 500; a cancelled handler answers nothing.  The IndexError raised
\* while the aggregate message is built is such an other exception.
HttpResponse(res) ==
    CASE res.kind = "ok" -> [status |-> 200, body |-> "completion"]
      [] res.kind = "all_failed" /\ res.model # "IndexError" ->
            [status |-> 502, body |-> "detail"]
      [] res.kind \in {"all_failed", "exception"} ->
            [status |-> 500, body |-> "detail"]
      [] OTHER -> [status |-> 0, body |-> "-"]

\* C18: when run_with_fallback fails on a non-streaming HTTP request, every
\* attempted model having failed, the response has a 5xx status, never a
\* 4xx one, and carries no completion.
C18_AggregateFailureIsServerError ==
    \A r \in Reqs :
        (endpoint[r] = "post" /\ pc[r] = "done" /\ attempts[r] # <<>>
            /\ result[r].kind \in {"all_failed", "exception"})
            => /\ HttpResponse(result[r]).status \in 500..599
               /\ HttpResponse(result[r]).body # "completion"

\* the primary and a fallback were attempted and both failed
C18_Witness ==
    \E r \in Reqs :
        /\ endpoint[r] = "post" /\ pc[r] = "done"
        /\ result[r].kind = "all_failed"
        /\ Len(attempts[r]) = 2
        /\ HttpResponse(result[r]).status = 502

\* _stream_sse's local actual_model: the primary's model_id, then the model
\* of the last fragment received
actual_model(r) ==
    IF out[r] = <<>> THEN decision[r].model ELSE Last(out[r]).model

\* C19: when every candidate of a streaming request failed before any
\* output, the aggregate failure stream_with_fallback raises names the last
\* attempted model with its error, and so does the error event sent to the
\* client.
C19_StreamFailureNamesLastModel ==
    \A r \in Reqs :
        (Streaming(r) /\ result[r].kind = "all_failed")
            => /\ result[r].model = Last(attempts[r])
               /\ result[r].error = last_error[r]
               /\ endpoint[r] = "sse" => actual_model(r) = Last(attempts[r])

\* the executor the orchestrators call on a chain entry: run_claude and
\* stream_claude, whatever the entry
AdapterUsed(m) == "subprocess"

\* C20: every attempt of the orchestrators is executed by the adapter the
\* provider type of the attempted model selects.
C20_AdapterByProviderType ==
    \A r \in Reqs :
        \A j \in 1..Len(attempts[r]) :
            AdapterUsed(attempts[r][j]) = AdapterFor(provider_type[attempts[r][j]])

\* ------------------------------------------------------ adapter failures
Ended == adapter_call.phase = "ended"

\* the failures of one attempt: the child exits non-zero, prints nothing or
\* outlives the timeout; the provider does not answer in time, answers with a
\* status outside 2xx, or with a body that is empty or no JSON
ListedFailure ==
    \/ /\ adapter_call.adapter = "subprocess"
       /\ \/ adapter_call.how = "timeout"
          \/ adapter_call.how = "exit" /\ adapter_call.code # 0
          \/ adapter_call.how = "exit" /\ adapter_call.body = "empty"
    \/ /\ adapter_call.adapter = "http"
       /\ \/ adapter_call.how = "timeout"
          \/ adapter_call.how = "response" /\ adapter_call.code \notin 200..299
          \/ adapter_call.how = "response"
                /\ adapter_call.body \in {"empty", "malformed", "empty_text"}

\* C21: every failure of one executor attempt (non-zero exit, empty output,
\* timeout, non-2xx status, empty or malformed body) is raised as the error
\* class run_with_fallback catches, so that the chain walk goes on.
C21_FailuresAreRecoverable ==
    (Ended /\ ListedFailure) => IsRuntimeError(adapter_call.raised)

\* ------------------------------------------------------ the SSE response
\* what _stream_sse sends after its `async for`, stream_with_fallback having
\* ended with res: the error chunk for the RuntimeError it catches, then the
\* done chunk and the [DONE] line; nothing when another exception, or the
\* cancellation, leaves the generator
SseTail(res) ==
    CASE res.kind \in {"complete", "error_fragment"} -> <<"done", "[DONE]">>
      [] res.kind = "all_failed" -> <<"content", "done", "[DONE]">>
      [] OTHER -> <<>>

\* the events of the response of request r: the role chunk, one content
\* chunk for every fragment received, the tail
SseEvents(r) ==
    <<"role">> \o [j \in 1..Len(out[r]) |-> "content"] \o SseTail(result[r])

WellFormedStream(ev) ==
    /\ Len(ev) >= 3
    /\ ev[1] = "role"
    /\ ev[Len(ev) - 1] = "done"
    /\ ev[Len(ev)] = "[DONE]"
    /\ \A j \in 2..(Len(ev) - 2) : ev[j] = "content"

\* C22: a streamed HTTP response the client does not cancel is one role
\* event, content events, one done event and the [DONE] line, also when the
\* chain is exhausted or an attempt raises any error.
C22_StreamAlwaysTerminated ==
    \A r \in Reqs :
        (endpoint[r] = "sse" /\ pc[r] = "done" /\ ~gone[r])
            => WellFormedStream(SseEvents(r))

\* C23: a request waiting at the admission gate is eventually admitted (or
\* leaves the gate), the event loop taking its steps, whether the children
\* of the admitted requests exit or only stop producing output.
C23_WaitingEventuallyAdmitted ==
    \A r \in Reqs : (pc[r] = "acquire") ~> (pc[r] # "acquire")

\* --------------------------------------------- routing tables and scores
\* C24: classifying and routing a request leaves the built-in fallback
\* table and the settings as they are; the primary taken out of a returned
\* chain stays in the chain later requests of the scenario receive.
C24_RoutingLeavesTablesAlone ==
    [][/\ DEFAULT_FALLBACK_CHAINS' = DEFAULT_FALLBACK_CHAINS
       /\ routing_settings' = routing_settings]_vars

\* a primary was taken out of the default chain of its scenario, after an
\* earlier request was served
C24_Witness ==
    /\ WasRouted /\ served
    /\ routing_settings.fallback_overrides[routed.scenario] = <<>>
    /\ Len(routed.fallback_chain) < Len(InitialFallbackChains[routed.scenario])
    /\ DEFAULT_FALLBACK_CHAINS = InitialFallbackChains

\* the decision rules in their order, the first one that applies decides
ReferenceRules(s) ==
    << [when |-> s.complex >= 3, then |-> "complex"],
       [when |-> s.code >= 3, then |-> "code"],
       [when |-> s.simple >= 3 /\ s.complex < 2 /\ s.code < 2 /\ s.moderate < 2,
        then |-> "simple"],
       [when |-> s.code >= 2, then |-> "code"],
       [when |-> s.complex >= 2, then |-> "complex"],
       [when |-> TRUE, then |-> "moderate"] >>

FirstMatch(rules) ==
    LET j == CHOOSE k \in 1..Len(rules) :
                 rules[k].when /\ \A l \in 1..(k - 1) : ~rules[l].when
    IN  rules[j].then

\* every combination of scores around the limits of the rules, and token
\* counts on both sides of 200
ScoreGrid == [complex : 0..4, code : 0..4, simple : 0..4, moderate : 0..3]
DecideAgreesOnGrid ==
    \A s \in ScoreGrid : \A t \in {0, 200, 201, 2000} :
        Decide(s, t) = FirstMatch(ReferenceRules(s))

C26_DecisionOrder ==
    /\ DecideAgreesOnGrid
    /\ (WasRouted /\ estimate_request_tokens(request.messages)
                         <= routing_settings.long_threshold)
          => routed.scenario =
                 FirstMatch(ReferenceRules(Scores(request.messages, request.hits)))

\* simple wins over its later rivals: the scores reach the third rule
C26_Witness ==
    /\ WasRouted
    /\ routed.scenario = "simple"
    /\ Scores(request.messages, request.hits).simple >= 3

\* the estimate of the concatenated text of the messages
ReferenceEstimate(messages) ==
    LET len == SumSeq([j \in 1..Len(messages) |-> messages[j].content.len])
        indicators == SumSeq([j \in 1..Len(messages) |->
                          messages[j].content.ticks + messages[j].content.defs])
    IN  IF len = 0 THEN 0
        ELSE IF indicators >= 2 THEN Max(1, (2 * len) \div 5)
        ELSE Max(1, len \div 4)

\* the example request was routed under the default configuration
ExampleRouted ==
    /\ WasRouted
    /\ request.messages = ExampleMessages
    /\ routing_settings = DefaultSettings

\* C27 as stated: for the example message classify_scenario computes a code
\* score of at least 3 and returns code.
C27_ExampleScoresThree ==
    ExampleRouted =>
        /\ Scores(request.messages, request.hits).code >= 3
        /\ routed.scenario = "code"

\* C27: for the example message under the default configuration
\* classify_scenario computes a code score of 2 (two code patterns match,
\* no code block), a complex score of 1 and a simple score of 3, and returns
\* code by the rule for a code score of at least 2.
C27_ExampleIsCodeByScoreTwo ==
    ExampleRouted =>
        LET s == Scores(request.messages, request.hits)
        IN  /\ s = [complex |-> 1, code |-> 2, simple |-> 3, moderate |-> 0]
            /\ estimate_request_tokens(request.messages) = 23
            /\ routed.scenario = "code"

\* C27 witness: the example request was routed and classified.
C27_Witness ==
    /\ ExampleRouted
    /\ request.model = "auto"
    /\ request.hits = PatternHits(ExampleWords, ExampleWords)
    /\ routed.scenario = "code"
    /\ routed.primary = "B"

\* C28: the token estimate of a request is the estimate of the concatenated
\* text of its messages, whatever the split of the text into messages.
C28_EstimateOfConcatenation ==
    request # NoRequest =>
        estimate_request_tokens(request.messages) = ReferenceEstimate(request.messages)

\* a request routed automatically
AutoRouted == WasRouted /\ ~NamesModel

\* C29: the primary of an automatically routed request is the model the
\* configured per-scenario table (YAML or environment) names for the
\* scenario when it names one that resolves, and the built-in default of
\* the scenario otherwise.
C29_ConfiguredScenarioModel ==
    AutoRouted =>
        LET k == routing_scenario_models(routing_settings)[routed.scenario]
        IN  routed.primary = IF k \in DOMAIN MODEL_MAP THEN MODEL_MAP[k]
                             ELSE DEFAULT_SCENARIO_MODELS[routed.scenario]

\* the override of the scenario is configured and all its identifiers resolve
OverrideResolves ==
    LET override == routing_settings.fallback_overrides[routed.scenario]
    IN  /\ override # <<>>
        /\ \A j \in 1..Len(override) : override[j] \in DOMAIN MODEL_MAP

OverrideModels ==
    LET override == routing_settings.fallback_overrides[routed.scenario]
    IN  [j \in 1..Len(override) |-> MODEL_MAP[override[j]]]

OverrideUnresolved ==
    LET override == routing_settings.fallback_overrides[routed.scenario]
    IN  /\ override # <<>>
        /\ \E j \in 1..Len(override) : override[j] \notin DOMAIN MODEL_MAP

\* C31: when the override of the classified scenario is configured but not
\* all of its identifiers resolve, get_fallback_chain returns the built-in
\* default ordering of the scenario.
C31_UnresolvedOverrideFallsBack ==
    (WasRouted /\ OverrideUnresolved) =>
        ScenarioChain = DEFAULT_FALLBACK_CHAINS[routed.scenario]

\* ------------------------------------------------- lines of child output
\* the streamed request r ended because of one line of its child's output
FailedOnALine(r) ==
    \/ result[r] \in {ExceptionResult("AttributeError"), ExceptionResult("ValueError")}
    \/ last_error[r].why = "bad_line"

\* C32: in stream_claude no single line of child output makes the stream
\* fail: whatever its kind, the line yields a fragment or is skipped and
\* reading continues.
C32_NoLineFailsStream ==
    \A r \in Reqs : Streaming(r) => ~FailedOnALine(r)

\* ------------------------------------------------------ provider streams
\* the contents stream_http has to yield for the lines received: those of
\* the data events with a non-empty content before the first [DONE]
RECURSIVE ExpectedDeltas(_)
ExpectedDeltas(lines) ==
    IF lines = <<>> \/ Head(lines) = DoneLine THEN <<>>
    ELSE (IF Head(lines) \in {TextLine("a"), TextLine("b")}
          THEN <<Head(lines).content>> ELSE <<>>)
             \o ExpectedDeltas(Tail(lines))

\* C33: stream_http yields, in arrival order, exactly the non-empty delta
\* contents of the data events before the first [DONE] or the close; no
\* other line ends the stream.
C33_StreamYieldsDeltas ==
    (http_stream.phase = "ended" /\ http_stream.code = 200) =>
        /\ http_stream.raised = None
        /\ http_stream.yielded = ExpectedDeltas(http_stream.lines)

\* ------------------------------------------------------ the gate per app
InsideOf(a) == {r \in Reqs : app[r] = a /\ Inside(r)}

\* C34: within one app the number of its requests inside run_with_fallback
\* or stream_with_fallback never exceeds max_concurrent, whatever endpoints
\* (POST, SSE, WebSocket) they came through.
C34_PerAppBound ==
    \A a \in Apps : Cardinality(InsideOf(a)) <= max_concurrent

\* C34 witness: the app is full with a WebSocket request while a POST
\* request of the same app waits at the gate.
C34_Witness ==
    \E r, q \in Reqs :
        /\ r # q /\ app[r] = app[q]
        /\ endpoint[r] \in {"ws", "ws_stream"} /\ Inside(r)
        /\ endpoint[q] = "post" /\ pc[q] = "acquire"
        /\ Cardinality(InsideOf(app[r])) = max_concurrent

\* ------------------------------------------------ attempts and the slot
\* an attempt of request r is under way: its executor has not returned, or
\* the child it started is still running
AttemptUnderWay(r) ==
    \/ pc[r] \in {"rc_wait", "sc_read", "sc_wait", "yield"}
    \/ proc[r] = "running"

\* C35: every backend attempt of a request starts and runs to its end while
\* the request holds its one slot of the gate of its app; the slot is held
\* across the whole walk and no attempt runs for a request without a slot.
C35_AttemptsUnderOneSlot ==
    \A r \in Reqs :
        AttemptUnderWay(r) =>
            /\ holds[r]
            /\ sem[app[r]] + Cardinality(Holders(app[r])) = max_concurrent

\* ------------------------------------------------- children of one walk
\* C36: during the fallback walk of a request at most one child of it is
\* alive: whenever the executor is invoked on the next chain entry, the child
\* of the attempt before has exited or was killed and reaped.
C36_OneChildAtATime ==
    [][\A r \in Reqs : attempts'[r] # attempts[r] => proc[r] # "running"]_vars

\* C36 witness: the first attempt timed out and the child of the second one
\* is running.
C36_Witness ==
    \E r \in Reqs :
        /\ Len(attempts[r]) = 2
        /\ last_error[r].why = "timeout"
        /\ proc[r] = "running"

\* ------------------------------------------------------- the walk ends
\* C37: a request inside run_with_fallback or stream_with_fallback
\* eventually leaves it (with a result, the aggregate error or the trailing
\* error fragment), the event loop taking its steps, whether its children
\* exit or only stop producing output.
C37_WalkTerminates ==
    \A r \in Reqs : Inside(r) ~> ~Inside(r)

\* ------------------------------------------------ the WebSocket exchange
\* what the websocket handler sends after the orchestrator call of a request
\* ended with res: "done" after a return, "error" for the RuntimeError it
\* catches, nothing when another exception leaves the handler or the client
\* is gone
WsTail(res) ==
    CASE res.kind \in {"ok", "complete", "error_fragment"} -> <<"done">>
      [] res.kind = "all_failed" -> <<"error">>
      [] OTHER -> <<>>

\* the messages sent for request r: the routing message, one delta for
\* every fragment received, the tail
WsMessages(r) ==
    <<"routing">> \o [j \in 1..Len(out[r]) |-> "delta"] \o WsTail(result[r])

WellFormedExchange(ms) ==
    /\ Len(ms) >= 2
    /\ ms[1] = "routing"
    /\ ms[Len(ms)] \in {"done", "error"}
    /\ \A j \in 2..(Len(ms) - 1) : ms[j] = "delta"

\* C38: for a well-formed request on a WebSocket whose client stays, the
\* server sends one routing message, then deltas, then exactly one terminal
\* message, done or error.
C38_OneTerminalMessage ==
    \A r \in Reqs :
        (endpoint[r] \in {"ws", "ws_stream"} /\ pc[r] = "done" /\ ~gone[r])
            => WellFormedExchange(WsMessages(r))
====
